---- MODULE Spec2Model ----
(***************************************************************************)
(* Model of librealsense2/src/context.h: the descriptor grouping and       *)
(* filtering utilities, the recovery device_info, the lazily opened device *)
(* handle of a device_info, and the devices-changed notification of a      *)
(* context.                                                                *)
(***************************************************************************)
EXTENDS Integers, Sequences, FiniteSets, TLC

VARIABLES
    call,                       \* the last call of a free/static utility function, with its arguments and result
    _devices_changed_callback,  \* context::_devices_changed_callback (NoCallback when none is registered)
    event,                      \* the last context operation, with what on_device_changed computed and invoked
    missed,                     \* history: some non-empty change was dropped because no callback was registered
    delivered,                  \* history: the callbacks that have been invoked
    registered,                 \* history: the argument of the last set_devices_changed_callback
    info,                       \* the device_info instance whose get_device() is being called
    _device,                    \* device_info::_device, the lazy<shared_ptr<device>> of that instance
    _mtx,                       \* the thread inside the lazy's critical section (0: none)
    pc,                         \* per thread: position inside get_device()
    ret,                        \* per thread: what its last completed get_device() produced
    ncalls,                     \* per thread: completed get_device() calls
    created,                    \* number of times create() has been invoked on the instance
    waited,                     \* history: threads that were blocked on the lazy while create() ran
    nsub                        \* result of the last get_subdevice_count() (-1: not called yet)

vars ==
    <<call, _devices_changed_callback, event, missed, delivered, registered,
      info, _device, _mtx, pc, ret, ncalls, created, waited, nsub>>

ctxVars == <<_devices_changed_callback, event, missed, delivered, registered>>
lazyVars == <<info, _device, _mtx, pc, ret, ncalls, created, waited, nsub>>

----------------------------------------------------------------------------
\* Bounds of the model.

MaxLen == 3         \* longest descriptor list handed to a utility function
MaxGroups == 2      \* most groups handed to group_devices_and_hids_by_unique_id
MaxSnap == 2        \* longest descriptor list of one kind inside a hot-plug snapshot
MaxThreads == 2     \* threads calling get_device() on the same instance
MaxCalls == 2       \* get_device() calls per thread

SeqsUpTo(S, n) == UNION {[1..k -> S] : k \in 0..n}

Range(s) == {s[i] : i \in DOMAIN s}

Count(s, x) == Cardinality({i \in DOMAIN s : s[i] = x})

----------------------------------------------------------------------------
\* Descriptors (uvc::uvc_device_info, uvc::hid_device_info, uvc::usb_device_info).

WILDCARD == "*"

UvcDescs ==
    {[pid |-> 2769, mi |-> 0, unique_id |-> "X"],
     [pid |-> 2769, mi |-> 1, unique_id |-> "X"],
     [pid |-> 2769, mi |-> 0, unique_id |-> "Y"]}

HidDescs ==
    {[pid |-> 2769, unique_id |-> "X"],
     [pid |-> 2769, unique_id |-> "Y"],
     [pid |-> 2769, unique_id |-> WILDCARD]}

\* Product ids a bus can report: 0, the two recovery ids, their neighbours, the largest uint16_t.
Pids == {0, 2738, 2739, 2740, 2778, 2779, 2780, 65535}

UsbDescs == {[pid |-> p, unique_id |-> "X"] : p \in Pids}

\* std::string operator< on the unique ids in use (first character code).
UidRank(u) == CASE u = "*" -> 42 [] u = "X" -> 88 [] u = "Y" -> 89

----------------------------------------------------------------------------
\* group_devices_by_unique_id

\* map[info.unique_id].push_back(info), for each info in order
RECURSIVE map_push_all(_, _)
map_push_all(devices, map) ==
    IF devices = <<>> THEN map
    ELSE LET d == Head(devices)
             k == d.unique_id
         IN  map_push_all(Tail(devices),
                 IF k \in DOMAIN map
                 THEN [map EXCEPT ![k] = Append(@, d)]
                 ELSE map @@ (k :> <<d>>))

\* for (auto&& kvp : map) result.push_back(kvp.second), in ascending key order
RECURSIVE map_values_in_order(_, _)
map_values_in_order(map, keys) ==
    IF keys = {} THEN <<>>
    ELSE LET k == CHOOSE x \in keys : \A y \in keys : UidRank(x) <= UidRank(y)
         IN  <<map[k]>> \o map_values_in_order(map, keys \ {k})

\* A plausible slip: map[info.unique_id] = { info } keeps only the last descriptor of each id.
RECURSIVE map_assign_all(_, _)
map_assign_all(devices, map) ==
    IF devices = <<>> THEN map
    ELSE LET d == Head(devices)
             k == d.unique_id
         IN  map_assign_all(Tail(devices),
                 IF k \in DOMAIN map
                 THEN [map EXCEPT ![k] = <<d>>]
                 ELSE map @@ (k :> <<d>>))

group_devices_by_unique_id_overwrite(devices) ==
    LET map == map_assign_all(devices, <<>>)
    IN  map_values_in_order(map, DOMAIN map)

group_devices_by_unique_id(devices) ==
    LET map == map_push_all(devices, <<>>)
    IN  map_values_in_order(map, DOMAIN map)

----------------------------------------------------------------------------
\* group_devices_and_hids_by_unique_id

\* A plausible slip: the wildcard test is left out.
group_devices_and_hids_no_wildcard(devices, hids) ==
    [i \in DOMAIN devices |->
        LET unique_id == Head(devices[i]).unique_id
        IN  [first |-> devices[i],
             second |-> SelectSeq(hids, LAMBDA hid : hid.unique_id = unique_id)]]

group_devices_and_hids_by_unique_id(devices, hids) ==
    [i \in DOMAIN devices |->
        LET unique_id == Head(devices[i]).unique_id
        IN  [first |-> devices[i],
             second |-> SelectSeq(hids,
                 LAMBDA hid : hid.unique_id = unique_id \/ hid.unique_id = WILDCARD)]]

----------------------------------------------------------------------------
\* trim_device_list

\* find(chosen.begin(), chosen.end(), info) != chosen.end()
was_chosen(chosen, d) == \E j \in DOMAIN chosen : chosen[j] = d

\* A plausible slip: only the first chosen descriptor is looked for.
trim_device_list_first_only(devices, chosen) ==
    IF chosen = <<>> THEN devices
    ELSE SelectSeq(devices, LAMBDA d : d # Head(chosen))

\* devices after the call: erase(remove_if(was_chosen)) keeps the others in order
trim_device_list(devices, chosen) ==
    IF chosen = <<>> THEN devices
    ELSE SelectSeq(devices, LAMBDA d : ~was_chosen(chosen, d))

----------------------------------------------------------------------------
\* device_info and recovery_info

BACKEND == "backend"

RS2_EXCEPTION_TYPE_DEVICE_IN_RECOVERY_MODE == "RS2_EXCEPTION_TYPE_DEVICE_IN_RECOVERY_MODE"

RECOVERY_MESSAGE ==
    "Selected RealSense device is in recovery mode!\nEither perform a firmware update or reconnect the camera to fall-back to last working firmware if available!"

\* uvc::devices_data: the three descriptor lists of a snapshot or of one logical device
devices_data(uvc, usb, hid) == [uvc_devices |-> uvc, usb_devices |-> usb, hid_devices |-> hid]

\* Equality of two devices_data values: structural, over all three lists.
devices_data_eq(a, b) ==
    /\ a.uvc_devices = b.uvc_devices
    /\ a.usb_devices = b.usb_devices
    /\ a.hid_devices = b.hid_devices

\* explicit recovery_info(backend, dfu) : device_info(backend), _dfu(std::move(dfu))
recovery_info(backend, dfu) == [kind |-> "recovery", _backend |-> backend, _dfu |-> dfu]

\* A device_info of an opened-on-demand standard device: one descriptor group with its hids.
standard_info(backend, group, hids) ==
    [kind |-> "standard", _backend |-> backend, group |-> group, hids |-> hids]

\* recovery_info::get_device_data: devices_data({ _dfu })
recovery_get_device_data(di) == devices_data(<<>>, <<di._dfu>>, <<>>)

standard_get_device_data(di) == devices_data(di.group, <<>>, di.hids)

\* virtual get_device_data()
get_device_data(di) ==
    IF di.kind = "recovery" THEN recovery_get_device_data(di) ELSE standard_get_device_data(di)

\* A plausible slip: the comparison is inverted.
device_info_eq_negated(a, b) == ~devices_data_eq(get_device_data(b), get_device_data(a))

\* A plausible slip: only the video descriptors of the two device_infos are compared.
device_info_eq_uvc_only(a, b) ==
    get_device_data(b).uvc_devices = get_device_data(a).uvc_devices

\* device_info::operator==: other.get_device_data() == get_device_data()
device_info_eq(a, b) == devices_data_eq(get_device_data(b), get_device_data(a))

RecoveryPidA == 2779    \* 0x0ADB
RecoveryPidB == 2739    \* 0x0AB3

\* A plausible slip: a range test between the two ids instead of two equalities.
is_recovery_pid_range(pid) == pid >= RecoveryPidB /\ pid <= RecoveryPidA

is_recovery_pid(pid) == pid = RecoveryPidA \/ pid = RecoveryPidB

\* A plausible slip: the whole list is wrapped as soon as it holds one recovery id.
pick_recovery_devices_all(backend, usb_devices) ==
    IF \E i \in DOMAIN usb_devices : is_recovery_pid(usb_devices[i].pid)
    THEN [i \in DOMAIN usb_devices |-> recovery_info(backend, usb_devices[i])]
    ELSE <<>>

RECURSIVE pick_recovery_devices(_, _)
pick_recovery_devices(backend, usb_devices) ==
    IF usb_devices = <<>> THEN <<>>
    ELSE LET usb == Head(usb_devices)
         IN  (IF is_recovery_pid(usb.pid) THEN <<recovery_info(backend, usb)>> ELSE <<>>)
                 \o pick_recovery_devices(backend, Tail(usb_devices))

\* recovery_info::get_subdevice_count
recovery_get_subdevice_count(di) == 1

----------------------------------------------------------------------------
\* Calls of the utility functions, on every input within the bounds.

UvcLists == SeqsUpTo(UvcDescs, MaxLen)
HidLists == SeqsUpTo(HidDescs, MaxLen)
UsbLists == SeqsUpTo(UsbDescs, MaxLen)

\* A descriptor group: non-empty, all of one unique_id.
Groups ==
    {g \in SeqsUpTo(UvcDescs, 2) :
        g # <<>> /\ \A i \in DOMAIN g : g[i].unique_id = g[1].unique_id}

GroupLists == SeqsUpTo(Groups, MaxGroups)

NoCall == [op |-> "none"]

call_group_devices_by_unique_id ==
    /\ call = NoCall
    /\ \E devices \in UvcLists :
          call' = [op |-> "group", devices |-> devices,
                   result |-> group_devices_by_unique_id(devices)]
    /\ UNCHANGED <<ctxVars, lazyVars>>

call_group_devices_and_hids_by_unique_id ==
    /\ call = NoCall
    /\ \E devices \in GroupLists, hids \in HidLists :
          call' = [op |-> "pair", devices |-> devices, hids |-> hids,
                   result |-> group_devices_and_hids_by_unique_id(devices, hids)]
    /\ UNCHANGED <<ctxVars, lazyVars>>

call_trim_device_list ==
    /\ call = NoCall
    /\ \E devices \in UvcLists, chosen \in UvcLists :
          call' = [op |-> "trim", devices |-> devices, chosen |-> chosen,
                   result |-> trim_device_list(devices, chosen)]
    /\ UNCHANGED <<ctxVars, lazyVars>>

call_is_recovery_pid ==
    /\ call = NoCall
    /\ \E pid \in Pids :
          call' = [op |-> "is_recovery_pid", pid |-> pid, result |-> is_recovery_pid(pid)]
    /\ UNCHANGED <<ctxVars, lazyVars>>

call_pick_recovery_devices ==
    /\ call = NoCall
    /\ \E usb_devices \in UsbLists :
          call' = [op |-> "pick", usb_devices |-> usb_devices,
                   result |-> pick_recovery_devices(BACKEND, usb_devices)]
    /\ UNCHANGED <<ctxVars, lazyVars>>

----------------------------------------------------------------------------
\* context: device lists of a snapshot, their difference, the devices-changed callback

Callbacks == {1, 2}

NoCallback == 0

NoEvent == [op |-> "none"]

\* The device_infos of one snapshot: one standard device per unique_id group of the
\* video descriptors, each with its hids, then the recovery devices.
create_devices(devices) ==
    LET pairs == group_devices_and_hids_by_unique_id(
                     group_devices_by_unique_id(devices.uvc_devices), devices.hid_devices)
    IN  [i \in DOMAIN pairs |-> standard_info(BACKEND, pairs[i].first, pairs[i].second)]
            \o pick_recovery_devices(BACKEND, devices.usb_devices)

\* first - second by device_info::operator==, each distinct device once
RECURSIVE sub_from(_, _, _)
sub_from(first, second, results) ==
    IF first = <<>> THEN results
    ELSE LET d == Head(first)
             keep == /\ \A j \in DOMAIN second : ~device_info_eq(second[j], d)
                     /\ \A j \in DOMAIN results : ~device_info_eq(results[j], d)
         IN  sub_from(Tail(first), second, IF keep THEN Append(results, d) ELSE results)

sub(first, second) == sub_from(first, second, <<>>)

\* What on_device_changed(old, curr) computes, and which callback it invokes with what.
notification(callback, old, curr) ==
    LET old_list == create_devices(old)
        new_list == create_devices(curr)
        removed == sub(old_list, new_list)
        added == sub(new_list, old_list)
        invoke == callback # NoCallback /\ (removed # <<>> \/ added # <<>>)
    IN  [op |-> "changed", old |-> old, curr |-> curr,
         old_list |-> old_list, new_list |-> new_list,
         removed |-> removed, added |-> added,
         invoked |-> IF invoke THEN callback ELSE NoCallback,
         args |-> IF invoke THEN <<removed, added>> ELSE <<>>]

\* The snapshots the device watcher can report.
SnapVideo ==
    {[uvc |-> <<>>, hid |-> <<>>],
     [uvc |-> <<[pid |-> 2769, mi |-> 0, unique_id |-> "X"]>>, hid |-> <<>>],
     [uvc |-> <<[pid |-> 2769, mi |-> 0, unique_id |-> "X"]>>,
      hid |-> <<[pid |-> 2769, unique_id |-> WILDCARD]>>],
     [uvc |-> <<[pid |-> 2769, mi |-> 0, unique_id |-> "X"],
                [pid |-> 2769, mi |-> 0, unique_id |-> "Y"]>>,
      hid |-> <<[pid |-> 2769, unique_id |-> WILDCARD]>>]}

SnapUsbDescs == {[pid |-> 2779, unique_id |-> "X"], [pid |-> 2739, unique_id |-> "Y"]}

Snapshots ==
    {devices_data(v.uvc, usb, v.hid) : v \in SnapVideo, usb \in SeqsUpTo(SnapUsbDescs, MaxSnap)}

\* A plausible slip: a callback already registered is kept.
set_devices_changed_callback_keep(callback) ==
    /\ event = NoEvent
    /\ _devices_changed_callback' =
          IF _devices_changed_callback = NoCallback THEN callback ELSE _devices_changed_callback
    /\ registered' = callback
    /\ UNCHANGED <<call, event, missed, delivered, lazyVars>>

set_devices_changed_callback(callback) ==
    /\ event = NoEvent
    /\ _devices_changed_callback' = callback
    /\ registered' = callback
    /\ UNCHANGED <<call, event, missed, delivered, lazyVars>>

on_device_changed(old, curr) ==
    /\ event = NoEvent
    /\ LET n == notification(_devices_changed_callback, old, curr)
       IN  /\ event' = n
           /\ missed' = (missed \/ (_devices_changed_callback = NoCallback
                                      /\ (n.removed # <<>> \/ n.added # <<>>)))
           /\ delivered' = delivered \cup (IF n.invoked # NoCallback THEN {n.invoked} ELSE {})
    /\ UNCHANGED <<call, _devices_changed_callback, registered, lazyVars>>

\* on_device_changed returns to the watcher.
on_device_changed_return ==
    /\ event # NoEvent
    /\ event' = NoEvent
    /\ UNCHANGED <<call, _devices_changed_callback, missed, delivered, registered, lazyVars>>

----------------------------------------------------------------------------
\* device_info::get_device and the lazy<shared_ptr<device>> behind it

Threads == 1..MaxThreads

\* recovery_info::create: throw unrecoverable_exception(RECOVERY_MESSAGE, ...IN_RECOVERY_MODE)
recovery_create_opens(di) == [state |-> "value", device |-> 1]

recovery_create(di) ==
    [state |-> "failed",
     error |-> [type |-> RS2_EXCEPTION_TYPE_DEVICE_IN_RECOVERY_MODE, message |-> RECOVERY_MESSAGE]]

\* Opening a standard device through the backend: the n-th device object, or the backend's failure.
standard_create(di, n) ==
    {[state |-> "value", device |-> n],
     [state |-> "failed", error |-> [type |-> "RS2_EXCEPTION_TYPE_BACKEND", message |-> "open failed"]]}

\* virtual create(backend): what the n-th invocation on di can produce
create(di, n) == IF di.kind = "recovery" THEN {recovery_create(di)} ELSE standard_create(di, n)

\* What a caller gets from a computed outcome: the handle, or the failure thrown at it.
outcome(o) ==
    IF o.state = "value" THEN [kind |-> "handle", device |-> o.device]
    ELSE [kind |-> "error", error |-> o.error]

get_device_call(t) ==
    /\ pc[t] = "idle"
    /\ ncalls[t] < MaxCalls
    /\ pc' = [pc EXCEPT ![t] = "lock"]
    /\ UNCHANGED <<call, ctxVars, info, _device, _mtx, ret, ncalls, created, waited, nsub>>

\* The lazy lets one caller in at a time.
lazy_lock(t) ==
    /\ pc[t] = "lock"
    /\ _mtx = 0
    /\ _mtx' = t
    /\ pc' = [pc EXCEPT ![t] = "locked"]
    /\ UNCHANGED <<call, ctxVars, info, _device, ret, ncalls, created, waited, nsub>>

\* First access: the initializer [this]() { return create(*_backend); } runs and its
\* outcome, handle or failure, is kept.
lazy_init(t) ==
    /\ pc[t] = "locked"
    /\ _device.state = "empty"
    /\ \E o \in create(info, created + 1) : _device' = o
    /\ created' = created + 1
    /\ waited' = waited \cup {u \in Threads : u # t /\ pc[u] = "lock"}
    /\ UNCHANGED <<call, ctxVars, info, _mtx, pc, ret, ncalls, nsub>>

\* The kept outcome goes to the caller.
lazy_return(t) ==
    /\ pc[t] = "locked"
    /\ _device.state # "empty"
    /\ _mtx' = 0
    /\ ret' = [ret EXCEPT ![t] = outcome(_device)]
    /\ pc' = [pc EXCEPT ![t] = "idle"]
    /\ ncalls' = [ncalls EXCEPT ![t] = @ + 1]
    /\ UNCHANGED <<call, ctxVars, info, _device, created, waited, nsub>>

\* A plausible slip: get_device() calls create() itself on every call.
get_device_uncached(t) ==
    /\ pc[t] = "idle"
    /\ ncalls[t] < MaxCalls
    /\ \E o \in create(info, created + 1) : ret' = [ret EXCEPT ![t] = outcome(o)]
    /\ created' = created + 1
    /\ ncalls' = [ncalls EXCEPT ![t] = @ + 1]
    /\ UNCHANGED <<call, ctxVars, info, _device, _mtx, pc, waited, nsub>>

\* device_info::get_device: return *_device
get_device(t) ==
    \/ get_device_call(t)
    \/ lazy_lock(t)
    \/ lazy_init(t)
    \/ lazy_return(t)

standard_get_subdevice_count(di) == Len(di.group)

\* virtual get_subdevice_count()
get_subdevice_count(di) ==
    IF di.kind = "recovery" THEN recovery_get_subdevice_count(di)
    ELSE standard_get_subdevice_count(di)

call_get_subdevice_count ==
    /\ nsub' = get_subdevice_count(info)
    /\ UNCHANGED <<call, ctxVars, info, _device, _mtx, pc, ret, ncalls, created, waited>>

\* The device_infos get_device() is called on.
DeviceInfos ==
    {recovery_info(BACKEND, [pid |-> RecoveryPidA, unique_id |-> "X"]),
     recovery_info(BACKEND, [pid |-> RecoveryPidB, unique_id |-> "Y"]),
     standard_info(BACKEND,
         <<[pid |-> 2769, mi |-> 0, unique_id |-> "X"], [pid |-> 2769, mi |-> 1, unique_id |-> "X"]>>,
         <<>>)}

\* The caller takes the result; the next call can start.
call_return ==
    /\ call # NoCall
    /\ call' = NoCall
    /\ UNCHANGED <<ctxVars, lazyVars>>

InitCommon ==
    /\ call = NoCall
    /\ _devices_changed_callback = NoCallback
    /\ event = NoEvent
    /\ missed = FALSE
    /\ delivered = {}
    /\ registered = NoCallback
    /\ _device = [state |-> "empty"]
    /\ _mtx = 0
    /\ pc = [t \in 1..MaxThreads |-> "idle"]
    /\ ret = [t \in 1..MaxThreads |-> [kind |-> "none"]]
    /\ ncalls = [t \in 1..MaxThreads |-> 0]
    /\ created = 0
    /\ waited = {}
    /\ nsub = -1

InitUtil ==
    /\ InitCommon
    /\ info = recovery_info(BACKEND, [pid |-> RecoveryPidA, unique_id |-> "X"])

NextUtil ==
    \/ call_group_devices_by_unique_id
    \/ call_group_devices_and_hids_by_unique_id
    \/ call_trim_device_list
    \/ call_is_recovery_pid
    \/ call_pick_recovery_devices
    \/ call_return

SpecUtil == InitUtil /\ [][NextUtil]_vars

----------------------------------------------------------------------------
\* Properties of the utility functions.

RECURSIVE Flatten(_)
Flatten(groups) == IF groups = <<>> THEN <<>> ELSE Head(groups) \o Flatten(Tail(groups))

\* C7: group_devices_by_unique_id(D) is a total partition of D: every group is
\* non-empty and holds descriptors of one unique_id only, no two groups share a
\* unique_id, every input descriptor lies in exactly one group, and the groups
\* together hold each descriptor exactly as many times as D does (no drops, no
\* duplicates).
C7_GroupingIsPartition ==
    call.op = "group" =>
        LET D == call.devices
            G == call.result
        IN  /\ \A g \in DOMAIN G :
                  /\ G[g] # <<>>
                  /\ \A i \in DOMAIN G[g] : G[g][i].unique_id = G[g][1].unique_id
            /\ \A g, h \in DOMAIN G : g # h => G[g][1].unique_id # G[h][1].unique_id
            /\ \A i \in DOMAIN D :
                  Cardinality({g \in DOMAIN G : D[i] \in Range(G[g])}) = 1
            /\ \A d \in UvcDescs : Count(Flatten(G), d) = Count(D, d)
            /\ Len(Flatten(G)) = Len(D)

C7_Witness ==
    /\ call.op = "group"
    /\ Len(call.devices) = 3
    /\ Len(call.result) = 2
    /\ \E g \in DOMAIN call.result : Len(call.result[g]) = 2

\* C8: group_devices_and_hids_by_unique_id returns one pair per input group, in
\* order, and the hid list paired with a group holds exactly the hid descriptors
\* whose unique_id is the group's unique_id or the wildcard "*" (in input order,
\* each as often as in the input); so a wildcard hid is in every group's list.
C8_HidPairing ==
    call.op = "pair" =>
        LET G == call.devices
            H == call.hids
            R == call.result
        IN  /\ Len(R) = Len(G)
            /\ \A i \in DOMAIN G :
                  /\ R[i].first = G[i]
                  /\ \A h \in HidDescs :
                        Count(R[i].second, h) =
                            (IF h.unique_id = G[i][1].unique_id \/ h.unique_id = "*"
                             THEN Count(H, h) ELSE 0)
                  /\ \A k \in DOMAIN H :
                        H[k].unique_id = "*" => H[k] \in Range(R[i].second)

C8_Witness ==
    /\ call.op = "pair"
    /\ Len(call.devices) = 2
    /\ call.devices[1][1].unique_id # call.devices[2][1].unique_id
    /\ \E k \in DOMAIN call.hids : call.hids[k].unique_id = "*"
    /\ \E k \in DOMAIN call.hids : call.hids[k].unique_id = "X"
    /\ \A i \in DOMAIN call.result : call.result[i].second # <<>>
    /\ call.result[1].second # call.result[2].second

\* C9: pick_recovery_devices returns, in order, one recovery device_info for each
\* input descriptor whose pid is 0x0ADB (2779) or 0x0AB3 (2739) and nothing for
\* the others, each with that single descriptor as its device data; and
\* is_recovery_pid is true for exactly those two ids.
C9_RecoveryPicking ==
    /\ call.op = "is_recovery_pid" => (call.result <=> call.pid \in {2779, 2739})
    /\ call.op = "pick" =>
          LET U == call.usb_devices
              R == call.result
              rec == SelectSeq(U, LAMBDA u : u.pid \in {2779, 2739})
          IN  /\ Len(R) = Len(rec)
              /\ \A i \in DOMAIN R :
                    /\ R[i].kind = "recovery"
                    /\ get_device_data(R[i]) =
                          [uvc_devices |-> <<>>, usb_devices |-> <<rec[i]>>, hid_devices |-> <<>>]

C9_Witness ==
    /\ call.op = "pick"
    /\ Len(call.usb_devices) = 3
    /\ Len(call.result) = 2
    /\ call.usb_devices[2].pid = 2780

\* C10: trim_device_list(D, C) leaves in D exactly the descriptors equal to no
\* element of C, in their original relative order (so nothing of C remains); with
\* an empty C, D is unchanged.
C10_TrimRemovesChosen ==
    call.op = "trim" =>
        LET D == call.devices
            C == call.chosen
            R == call.result
        IN  /\ R = SelectSeq(D, LAMBDA d : d \notin Range(C))
            /\ Range(R) \cap Range(C) = {}
            /\ C = <<>> => R = D

C10_Witness ==
    /\ call.op = "trim"
    /\ Len(call.devices) = 3
    /\ Len(call.chosen) = 2
    /\ call.chosen[1] # call.chosen[2]
    /\ Len(call.result) = 1
    /\ call.result[1] = call.devices[2]

----------------------------------------------------------------------------
\* The context under hot-plug notifications and callback registrations.

InitCtx == InitUtil

NextCtx ==
    \/ \E callback \in Callbacks \cup {NoCallback} : set_devices_changed_callback(callback)
    \/ \E old \in Snapshots, curr \in Snapshots : on_device_changed(old, curr)
    \/ on_device_changed_return

SpecCtx == InitCtx /\ [][NextCtx]_vars

SameDevice(a, b) == get_device_data(a) = get_device_data(b)

\* The entries of `from` that equal no entry of `other`: `diff` holds exactly those,
\* each once.
IsDifference(diff, from, other) ==
    /\ \A i \in DOMAIN diff : \E k \in DOMAIN from : diff[i] = from[k]
    /\ \A k \in DOMAIN from :
          (\E i \in DOMAIN diff : SameDevice(diff[i], from[k]))
              <=> ~(\E j \in DOMAIN other : SameDevice(other[j], from[k]))
    /\ \A i, j \in DOMAIN diff : i # j => ~SameDevice(diff[i], diff[j])

\* C1: on_device_changed(old, new) computes removed as exactly the device_infos of
\* old equal (by device data) to none of new, and added as exactly those of new
\* equal to none of old, each distinct device once; removed(old, new) is
\* added(new, old) and the other way round; and the registered callback is invoked
\* with both lists whenever one of them is not empty.
C1_DiffIsSetDifference ==
    event.op = "changed" =>
        /\ IsDifference(event.removed, event.old_list, event.new_list)
        /\ IsDifference(event.added, event.new_list, event.old_list)
        /\ LET swapped == notification(_devices_changed_callback, event.curr, event.old)
           IN  event.removed = swapped.added /\ event.added = swapped.removed
        /\ (_devices_changed_callback # NoCallback
                /\ (event.removed # <<>> \/ event.added # <<>>))
              => /\ event.invoked = _devices_changed_callback
                 /\ event.args = <<event.removed, event.added>>

C1_Witness ==
    /\ event.op = "changed"
    /\ Len(event.old_list) = 3
    /\ Len(event.removed) = 1
    /\ Len(event.added) = 2
    /\ \E i, j \in DOMAIN event.old_list :
          i # j /\ SameDevice(event.old_list[i], event.old_list[j])
                /\ SameDevice(event.old_list[i], event.removed[1])
    /\ event.invoked = 1

\* C2: on_device_changed(S, S) produces an empty removed list and an empty added
\* list and invokes no callback.
C2_SameSnapshotIsNoChange ==
    (event.op = "changed" /\ event.old = event.curr) =>
        /\ event.removed = <<>>
        /\ event.added = <<>>
        /\ event.invoked = NoCallback
        /\ event.args = <<>>

C2_Witness ==
    /\ event.op = "changed"
    /\ event.old = event.curr
    /\ Len(event.old_list) = 3
    /\ _devices_changed_callback # NoCallback

\* C6: a change is delivered only to the callback registered last, never to one it
\* replaced; with none registered it is delivered to nobody; and a registration
\* delivers nothing, so a change dropped earlier never reaches a callback registered
\* afterwards.
C6_OnlyLastRegisteredIsNotified ==
    [][ /\ (event.op = "none" /\ event'.op = "changed") =>
              /\ registered' = registered
              /\ event'.invoked \in {NoCallback, registered}
              /\ (registered # NoCallback /\ (event'.removed # <<>> \/ event'.added # <<>>))
                    => event'.invoked = registered
              /\ delivered' = delivered \cup ({event'.invoked} \ {NoCallback})
        /\ ~(event.op = "none" /\ event'.op = "changed") => delivered' = delivered
      ]_vars

C6_Witness ==
    /\ missed
    /\ event.op = "changed"
    /\ event.invoked = 2
    /\ delivered = {1, 2}

----------------------------------------------------------------------------
\* Threads calling get_device() and get_subdevice_count() on one device_info.

InitLazy ==
    /\ InitCommon
    /\ info \in DeviceInfos

NextLazy ==
    \/ \E t \in Threads : get_device(t)
    \/ call_get_subdevice_count

SpecLazy == InitLazy /\ [][NextLazy]_vars

Returned(t) == ret[t].kind # "none"

\* C3: on one device_info, whatever the interleaving of get_device() calls, create()
\* runs once, one caller at a time is inside the construction, nobody returns before
\* the first attempt has completed, and every caller gets the same outcome: the same
\* handle or the same failure.
C3_SingleConstruction ==
    /\ created <= 1
    /\ Cardinality({t \in Threads : pc[t] = "locked"}) <= 1
    /\ \A t \in Threads : Returned(t) => (created = 1 /\ _device.state # "empty")
    /\ \A t, u \in Threads : (Returned(t) /\ Returned(u)) => ret[t] = ret[u]

C3_Witness ==
    /\ waited # {}
    /\ \A t \in Threads : Returned(t)
    /\ created = 1

\* C4: once a get_device() call has failed, create() is not invoked again and every
\* call that returns afterwards returns that same failure, never a handle.
C4_FailureIsCached ==
    [][ \A t \in Threads :
            ret[t].kind = "error" =>
                /\ created' = created
                /\ \A u \in Threads : ret'[u].kind # "none" => ret'[u] = ret[t]
      ]_vars

C4_Witness ==
    /\ info.kind = "standard"
    /\ \E t \in Threads : ncalls[t] = MaxCalls /\ ret[t].kind = "error"
    /\ \A t \in Threads : ncalls[t] >= 1
    /\ created = 1

\* C5: on a recovery device_info every get_device() call, the first and the later
\* ones, fails with the DEVICE_IN_RECOVERY_MODE error carrying the fixed message, no
\* handle is ever produced, and get_subdevice_count() returns 1.
C5_RecoveryNeverOpens ==
    info.kind = "recovery" =>
        /\ \A t \in Threads :
              Returned(t) =>
                  ret[t] = [kind |-> "error",
                            error |-> [type |-> "RS2_EXCEPTION_TYPE_DEVICE_IN_RECOVERY_MODE",
                                       message |-> "Selected RealSense device is in recovery mode!\nEither perform a firmware update or reconnect the camera to fall-back to last working firmware if available!"]]
        /\ _device.state # "value"
        /\ nsub \in {-1, 1}

C5_Witness ==
    /\ info.kind = "recovery"
    /\ \A t \in Threads : ncalls[t] = MaxCalls /\ ret[t].kind = "error"
    /\ nsub = 1

====
